---- MODULE Spec2Model ----
(***************************************************************************)
(* Terminal session bridge (WebSocket <-> pty), modelled from the server   *)
(* script: one 'connection' handler that spawns a pty, registers it in the *)
(* terminals map and wires the onData / onExit / message / close / error   *)
(* callbacks, plus the SIGINT shutdown handler.                            *)
(*                                                                         *)
(* Every callback runs to completion on the single JavaScript thread, so   *)
(* each callback is one atomic action.  What the environment does (the     *)
(* client, the shell process, the operating system, Math.random) is drawn  *)
(* from small sets.                                                        *)
(***************************************************************************)
EXTENDS Integers, Sequences, FiniteSets, TLC

\* ------------------------------------------------------------------ bounds
MaxSessions == 2      \* connections accepted during one run
MaxChatCalls == 3     \* calls made on the chat manager during one run
MaxAiCalls == 3       \* calls made on the AI service during one run
MaxSteps == 4         \* things the environment does of its own accord during
                      \* one run: connections, frames, output chunks, failures
                      \* and disconnects of the client, process exits nobody
                      \* asked for, SIGINTs

Sessions == 1..MaxSessions

\* ------------------------------------------------------- program constants
InitialCols == 80
InitialRows == 30
IdStart == 2          \* substr(2, 9): characters skipped ("0.")
IdLength == 9         \* substr(2, 9): characters kept
Radix == 36           \* toString(36)

\* ------------------------------------------------------ JavaScript values
Undefined == <<"undefined">>
Null == <<"null">>
Num(n) == <<"num", n>>
Str(s) == <<"str", s>>
Obj(props) == <<"obj", props>>
SyntaxError == <<"SyntaxError">>

Min(a, b) == IF a < b THEN a ELSE b

\* str.substr(start, length)
Substr(str, start, length) ==
  SubSeq(str, start + 1, Min(Len(str), start + length))

\* Characters are numbers: the base-36 digits 0..Radix-1, and Dot for ".".
Dot == Radix

\* Math.random() yields a number in [0, 1).  It is given by the digits of
\* its base-36 fraction: <<>> is 0, <<18>> is 0.5 ("0.i").  The two long
\* fractions differ in their tenth digit only.
RandomFractions ==
  {<<>>, <<1, 2, 3, 4, 5, 6, 7, 8, 9, 10>>, <<1, 2, 3, 4, 5, 6, 7, 8, 9, 11>>}

\* Number.prototype.toString(36) of a number in [0, 1)
ToString36(frac) == IF frac = <<>> THEN <<0>> ELSE <<0, Dot>> \o frac

\* Math.random().toString(36).substr(2, 9)
generateId(frac) == Substr(ToString36(frac), IdStart, IdLength)

\* JSON.stringify of an object literal: the properties in order, those whose
\* value is undefined left out.
RECURSIVE JSONstringify(_)
JSONstringify(props) ==
  IF props = <<>> THEN <<>>
  ELSE IF Head(props)[2] = Undefined THEN JSONstringify(Tail(props))
  ELSE <<Head(props)>> \o JSONstringify(Tail(props))

\* Text of an inbound frame, as its tokens.
LBrace == <<"{">>
RBrace == <<"}">>
Key(k) == <<"key", k>>

IsObjectText(m) ==
  /\ Len(m) >= 2
  /\ Len(m) % 2 = 0
  /\ m[1] = LBrace
  /\ m[Len(m)] = RBrace
  /\ \A i \in 2..(Len(m) - 1) :
       IF i % 2 = 0 THEN m[i][1] = "key" ELSE m[i][1] \in {"str", "num", "null"}

\* JSON.parse(message.toString()): the value, or SyntaxError when it throws
JSONparse(m) ==
  IF IsObjectText(m)
    THEN Obj([i \in 1..((Len(m) - 2) \div 2) |-> <<m[2 * i][2], m[2 * i + 1]>>])
  ELSE IF Len(m) = 1 /\ m[1][1] \in {"str", "num", "null"} THEN m[1]
  ELSE SyntaxError

\* value.key for a value that is not null: the last property of that name
Prop(value, key) ==
  IF value[1] # "obj" THEN Undefined
  ELSE LET hits == {i \in 1..Len(value[2]) : value[2][i][1] = key}
       IN IF hits = {} THEN Undefined
          ELSE value[2][CHOOSE i \in hits : \A j \in hits : j <= i][2]

MsgInput(d) == <<LBrace, Key("type"), Str("input"), Key("data"), Str(d), RBrace>>
MsgResize(c, r) ==
  <<LBrace, Key("type"), Str("resize"), Key("cols"), Num(c), Key("rows"), Num(r), RBrace>>
MsgUnknown == <<LBrace, Key("type"), Str("ping"), RBrace>>
MsgMalformed == <<LBrace, Key("type")>>
MsgNoData == <<LBrace, Key("type"), Str("input"), RBrace>>

Payloads == {"a", "b"}
Messages ==
  {MsgInput(d) : d \in Payloads}
    \cup {MsgResize(120, 40), MsgUnknown, MsgMalformed, MsgNoData}
Chunks == {"x", "y"}

\* What the process adapter hands to an onExit listener: one event object.
ExitCodes == {0, 1}
SIGHUP == 1           \* the signal kill() sends when it is given none
ExitEvent(exitCode, signal) ==
  Obj(<<<<"exitCode", Num(exitCode)>>, <<"signal", Num(signal)>>>>)

SpawnErrors == {"ENOENT"}

\* --------------------------------------------------------------- state
VARIABLES
  hostUp,       \* the server process has not called process.exit
  wssState,     \* the WebSocketServer: "RUNNING", "CLOSING", "CLOSED"
  steps,        \* what the environment did of its own accord so far
  nconn,        \* connections accepted so far; connection k is session k
  conn,         \* per session: "none", "active" (spawned), "failed"
  terminalId,   \* per session: the const terminalId of its handler
  spawns,       \* per session: calls of pty.spawn
  terminals,    \* the Map, as its entries <<id, terminal>>; a terminal is
                \* named by the session that spawned it
  removals,     \* per session: entries its callbacks deleted from the Map
  pid,          \* per session: terminal.pid
  procState,    \* per session: "none", "running", "exited", "reaped"
  kills,        \* per session: calls of terminal.kill()
  exitArgs,     \* per session: arguments the pending exit event carries
  readyState,   \* per session: ws.readyState
  wsPending,    \* per session: ws event emitted, handler not yet run
  wsHandled,    \* per session: ws events whose handler has run
  wsCalls,      \* per session: ws.send / ws.close calls, in order
  received,     \* per session: frames handed to the message handler
  written,      \* per session: payloads handed to terminal.write
  liveWrites,   \* per session: how many of them found the process running
  dims,         \* per session: <<cols, rows>> of the pseudo-terminal
  produced,     \* per session: output chunks the process produced
  uncaught      \* exceptions the uncaughtException handler has logged

\* The chat manager of the page (one ChatManager and the localStorage of its
\* origin).
VARIABLES
  chatHistory,      \* this.chatHistory
  chatStorage,      \* localStorage item 'ai-chat-history': Null or its text
  chatUnsaved,      \* this.chatHistory as saveChatHistory last found it
  chatClock,        \* entries created so far (Date.now() of generateId)
  chatCalls         \* calls made on the chat manager so far

\* The AI service of the page and the two configuration files behind the
\* /api/config and /api/ai-config routes.
VARIABLES
  aiSettings,       \* this.settings
  ctorLoad,         \* the load the constructor started: "pending", "done"
  aiOp,             \* the saveSettings / resetToDefaults call in flight
  aiDone,           \* the last such call that completed, and how
  loadResult,       \* what loadSettings returned since the last completed save
  pinned,           \* the settings the last saveSettings call applied
  configYaml,       \* config.yaml: Null or its content
  aiConfigYaml,     \* ai-config.yaml: Null or its content
  aiCalls           \* calls made on the AI service so far

chatVars == <<chatHistory, chatStorage, chatUnsaved, chatClock, chatCalls>>
aiVars == <<aiSettings, ctorLoad, aiOp, aiDone, loadResult, pinned, configYaml,
            aiConfigYaml, aiCalls>>
pageVars == <<chatVars, aiVars>>
serverVars == <<hostUp, wssState, steps, nconn, conn, terminalId, spawns, pid,
                procState, exitArgs, readyState, wsPending, wsHandled, received,
                written, liveWrites, dims, produced, terminals, removals, kills,
                wsCalls, uncaught>>

hostVars == <<hostUp, wssState, steps>>
connVars == <<nconn, conn, terminalId, spawns, pid>>
procVars == <<procState, exitArgs>>
wsVars == <<readyState, wsPending, wsHandled>>
ioVars == <<received, written, liveWrites, dims, produced>>
vars == <<hostVars, connVars, procVars, wsVars, ioVars, terminals, removals,
          kills, wsCalls, uncaught, pageVars>>

\* ------------------------------------------------- the chat manager, data
maxHistorySize == 100

\* A chat entry: what addMessage builds, as far as the history goes.
ChatEntry(id, when) == [id |-> id, status |-> "completed", timestamp |-> <<"Date", when>>]

\* JSON.stringify of the history: a Date becomes its ISO string.
ChatStringify(h) ==
  <<"json", [i \in 1..Len(h) |-> [h[i] EXCEPT !.timestamp = <<"iso", @[2]>>]]>>

\* JSON.parse of such a text.
ChatParse(text) == text[2]

\* entry.timestamp = new Date(entry.timestamp), for every entry
ReviveTimestamps(h) ==
  [i \in 1..Len(h) |-> [h[i] EXCEPT !.timestamp = <<"Date", @[2]>>]]

\* arr.slice(-n) for n > 0
SliceLast(arr, n) ==
  IF Len(arr) <= n THEN arr ELSE SubSeq(arr, Len(arr) - n + 1, Len(arr))

\* arr.findIndex(entry => entry.id === id), 0 for -1
FindIndex(arr, id) ==
  IF \E i \in 1..Len(arr) : arr[i].id = id
    THEN CHOOSE i \in 1..Len(arr) :
           arr[i].id = id /\ \A j \in 1..(i - 1) : arr[j].id # id
    ELSE 0

\* arr.splice(index, 1), the array left
SpliceOne(arr, index) ==
  [i \in 1..(Len(arr) - 1) |-> IF i < index THEN arr[i] ELSE arr[i + 1]]

\* The chatHistory array of an export file holding n entries.
ImportLengths == {0, 1, maxHistorySize, maxHistorySize + 1, maxHistorySize + 2}
ImportFile(n) ==
  [i \in 1..n |-> [id |-> <<"file", i>>, status |-> "completed",
                    timestamp |-> <<"iso", i>>]]

\* --------------------------------------------------- the AI service, data
DefaultSettings ==
  [aiServiceType |-> "ollama",
   ollamaHost |-> "http://localhost:11434",
   currentModel |-> "llama3.2:latest",
   openaiBaseUrl |-> "https://api.openai.com/v1",
   openaiApiToken |-> "",
   openaiModel |-> "gpt-3.5-turbo",
   temperature |-> 7,       \* in tenths: 0.7
   topP |-> 9,              \* in tenths: 0.9
   maxTokens |-> 512,
   systemPrompt |-> ""]

\* { ...a, ...b }
Spread(a, b) ==
  [f \in (DOMAIN a) \cup (DOMAIN b) |-> IF f \in DOMAIN b THEN b[f] ELSE a[f]]

\* The settings a caller passes to saveSettings.
SaveInputs ==
  {[temperature |-> 2],
   [aiServiceType |-> "openai", openaiApiToken |-> "sk-1"],
   [currentModel |-> "qwen2:7b"]}

\* The settings field a leaf of the ai section of a configuration maps to.
ConfigPath ==
  [aiServiceType |-> "ai.serviceType",
   ollamaHost |-> "ai.ollama.host",
   currentModel |-> "ai.ollama.model",
   openaiBaseUrl |-> "ai.openai.baseUrl",
   openaiApiToken |-> "ai.openai.apiToken",
   openaiModel |-> "ai.openai.model",
   temperature |-> "ai.parameters.temperature",
   topP |-> "ai.parameters.topP",
   maxTokens |-> "ai.parameters.maxTokens",
   systemPrompt |-> "ai.parameters.systemPrompt"]

\* A configuration object: whether it has an ai section, the leaves of that
\* section by path, and whether it has the terminal / appearance / advanced
\* sections.
Config(ai, leaves, app) == [ai |-> ai, leaves |-> leaves, app |-> app]

\* The default the GET route of config.yaml writes when the file is missing.
DefaultConfig == Config(FALSE, <<>>, TRUE)

\* The default the GET route of ai-config.yaml writes when the file is missing.
DefaultAiConfig ==
  Config(TRUE,
         [q \in {ConfigPath[f] : f \in DOMAIN ConfigPath} |->
            DefaultSettings[CHOOSE f \in DOMAIN ConfigPath : ConfigPath[f] = q]],
         FALSE)

\* yaml.dump and yaml.load
YamlDump(config) == <<"yaml", config>>
YamlLoad(text) == text[2]

\* Fields loadSettings defaults with ||, the others with ??
OrDefaulted ==
  {"aiServiceType", "ollamaHost", "currentModel", "openaiBaseUrl",
   "openaiApiToken", "openaiModel", "systemPrompt"}
Falsy(v) == v = ""

\* A value that may be absent.
None == [has |-> FALSE]
Some(v) == [has |-> TRUE, value |-> v]

Send(text) == [op |-> "send", data |-> text]
Close == [op |-> "close"]

Init ==
  /\ hostUp = TRUE
  /\ wssState = "RUNNING"
  /\ steps = 0
  /\ nconn = 0
  /\ conn = [s \in Sessions |-> "none"]
  /\ terminalId = [s \in Sessions |-> <<>>]
  /\ spawns = [s \in Sessions |-> 0]
  /\ terminals = {}
  /\ removals = [s \in Sessions |-> 0]
  /\ pid = [s \in Sessions |-> 0]
  /\ procState = [s \in Sessions |-> "none"]
  /\ kills = [s \in Sessions |-> 0]
  /\ exitArgs = [s \in Sessions |-> <<>>]
  /\ readyState = [s \in Sessions |-> "NONE"]
  /\ wsPending = [s \in Sessions |-> "none"]
  /\ wsHandled = [s \in Sessions |-> {}]
  /\ wsCalls = [s \in Sessions |-> <<>>]
  /\ received = [s \in Sessions |-> <<>>]
  /\ written = [s \in Sessions |-> <<>>]
  /\ liveWrites = [s \in Sessions |-> 0]
  /\ dims = [s \in Sessions |-> <<0, 0>>]
  /\ produced = [s \in Sessions |-> <<>>]
  /\ uncaught = 0
  /\ chatHistory = <<>>
  /\ chatStorage = Null
  /\ chatUnsaved = <<>>
  /\ chatClock = 0
  /\ chatCalls = 0
  /\ aiSettings = DefaultSettings
  /\ ctorLoad = "pending"
  /\ aiOp = [pc |-> "idle"]
  /\ aiDone = [kind |-> "none"]
  /\ loadResult = None
  /\ pinned = None
  /\ configYaml = Null
  /\ aiConfigYaml = Null
  /\ aiCalls = 0

\* ------------------------------------------------------- the Map
MapHas(T, id) == \E e \in T : e[1] = id
MapGet(T, id) == (CHOOSE e \in T : e[1] = id)[2]
MapSet(T, id, t) == {e \in T : e[1] # id} \cup {<<id, t>>}
MapDelete(T, id) == {e \in T : e[1] # id}

\* pid the operating system gives the k-th process spawned
OsPid(k) == 100 + k


\* ------------------------------------------------ wss.on('connection')
ConnectedEnvelope(id, shell, p) ==
  JSONstringify(<<<<"type", Str("connected")>>, <<"terminalId", Str(id)>>,
                  <<"shell", Str(shell)>>, <<"pid", Num(p)>>>>)

\* The literal the catch block puts before error.message.
ErrorPrefix == "failed to create the terminal process: "

ErrorEnvelope(message) ==
  JSONstringify(<<<<"type", Str("error")>>,
                  <<"message", Str(<<ErrorPrefix, message>>)>>>>)

Shell == "/bin/bash"

\* A try block that spawns with the adapter's default of 24 rows.
SpawnSucceedsDefaultRows(s, id) ==
  /\ conn' = [conn EXCEPT ![s] = "active"]
  /\ terminals' = MapSet(terminals, id, s)
  /\ pid' = [pid EXCEPT ![s] = OsPid(s)]
  /\ procState' = [procState EXCEPT ![s] = "running"]
  /\ dims' = [dims EXCEPT ![s] = <<InitialCols, 24>>]
  /\ wsCalls' = [wsCalls EXCEPT ![s] = <<Send(ConnectedEnvelope(id, Shell, OsPid(s)))>>]
  /\ readyState' = [readyState EXCEPT ![s] = "OPEN"]

\* A try block that sends no connected envelope.
SpawnSucceedsSilent(s, id) ==
  /\ conn' = [conn EXCEPT ![s] = "active"]
  /\ terminals' = MapSet(terminals, id, s)
  /\ pid' = [pid EXCEPT ![s] = OsPid(s)]
  /\ procState' = [procState EXCEPT ![s] = "running"]
  /\ dims' = [dims EXCEPT ![s] = <<InitialCols, InitialRows>>]
  /\ wsCalls' = [wsCalls EXCEPT ![s] = <<>>]
  /\ readyState' = [readyState EXCEPT ![s] = "OPEN"]

\* The try block when pty.spawn returns a terminal.
SpawnSucceeds(s, id) ==
  /\ conn' = [conn EXCEPT ![s] = "active"]
  /\ terminals' = MapSet(terminals, id, s)
  /\ pid' = [pid EXCEPT ![s] = OsPid(s)]
  /\ procState' = [procState EXCEPT ![s] = "running"]
  /\ dims' = [dims EXCEPT ![s] = <<InitialCols, InitialRows>>]
  /\ wsCalls' = [wsCalls EXCEPT ![s] = <<Send(ConnectedEnvelope(id, Shell, OsPid(s)))>>]
  /\ readyState' = [readyState EXCEPT ![s] = "OPEN"]

\* A catch block that also deletes the id from the Map.
SpawnFailsDeletesEntry(s, id, message) ==
  /\ conn' = [conn EXCEPT ![s] = "failed"]
  /\ wsCalls' = [wsCalls EXCEPT ![s] = <<Send(ErrorEnvelope(message)), Close>>]
  /\ readyState' = [readyState EXCEPT ![s] = "CLOSING"]
  /\ terminals' = MapDelete(terminals, id)
  /\ UNCHANGED <<pid, procState, dims>>

\* A catch block that reports the failure and leaves the transport open.
SpawnFailsWithoutClose(s, id, message) ==
  /\ conn' = [conn EXCEPT ![s] = "failed"]
  /\ wsCalls' = [wsCalls EXCEPT ![s] = <<Send(ErrorEnvelope(message))>>]
  /\ readyState' = [readyState EXCEPT ![s] = "OPEN"]
  /\ UNCHANGED <<terminals, pid, procState, dims>>

\* The catch block when pty.spawn throws.
SpawnFails(s, id, message) ==
  /\ conn' = [conn EXCEPT ![s] = "failed"]
  /\ wsCalls' = [wsCalls EXCEPT ![s] = <<Send(ErrorEnvelope(message)), Close>>]
  /\ readyState' = [readyState EXCEPT ![s] = "CLOSING"]
  /\ UNCHANGED <<terminals, pid, procState, dims>>

\* A server that keeps emitting 'connection' while it is closing.
AcceptingWhileClosing(state) == state \in {"RUNNING", "CLOSING"}

\* The WebSocketServer emits 'connection' only while it is running:
\* wss.close() takes its upgrade listener off the HTTP server.
Accepting(state) == state = "RUNNING"

Connection ==
  /\ hostUp
  /\ Accepting(wssState)
  /\ nconn < MaxSessions
  /\ steps < MaxSteps
  /\ steps' = steps + 1
  /\ \E frac \in RandomFractions :
       LET s == nconn + 1
           id == generateId(frac)
       IN /\ nconn' = s
          /\ terminalId' = [terminalId EXCEPT ![s] = id]
          /\ spawns' = [spawns EXCEPT ![s] = @ + 1]
          /\ \/ SpawnSucceeds(s, id)
             \/ \E message \in SpawnErrors : SpawnFails(s, id, message)
  /\ UNCHANGED <<hostUp, wssState, exitArgs, wsPending, wsHandled, received,
                 written, liveWrites, produced, removals, kills>>
  /\ UNCHANGED <<uncaught, pageVars>>


\* ------------------------------------------------------ terminal.onData
\* A listener that forwards a chunk cut down to its first character.
OutputEnvelopeTruncated(data) ==
  JSONstringify(<<<<"type", Str("output")>>, <<"data", Str("x")>>>>)

OutputEnvelope(data) ==
  JSONstringify(<<<<"type", Str("output")>>, <<"data", Str(data)>>>>)

\* The process produces a chunk and the onData listener runs.
TerminalOnData(s) ==
  /\ hostUp
  /\ conn[s] = "active"
  /\ procState[s] = "running"
  /\ steps < MaxSteps
  /\ \E data \in Chunks :
       /\ produced' = [produced EXCEPT ![s] = Append(@, data)]
       /\ wsCalls' = [wsCalls EXCEPT ![s] =
                        IF readyState[s] = "OPEN"
                          THEN Append(@, Send(OutputEnvelope(data)))
                          ELSE @]
  /\ steps' = steps + 1
  /\ UNCHANGED <<hostUp, wssState, connVars, procVars, wsVars, received, written,
                 liveWrites, dims, terminals, removals, kills>>
  /\ UNCHANGED <<uncaught, pageVars>>

\* ------------------------------------------------------ terminal.onExit
\* The adapter fires its exit event with one argument, the event object.
ExitDelivery(event) == <<event>>

\* The process was sent SIGHUP: by kill(), or by the loss of its controlling
\* terminal when the server process is gone.
Signalled(s) == kills[s] > 0 \/ ~hostUp

\* The shell ends: on its own, or by the signal.
ProcessExit(s) ==
  /\ procState[s] = "running"
  /\ IF Signalled(s)
       THEN /\ exitArgs' = [exitArgs EXCEPT ![s] = ExitDelivery(ExitEvent(0, SIGHUP))]
            /\ steps' = steps
       ELSE /\ \E exitCode \in ExitCodes :
                 exitArgs' = [exitArgs EXCEPT ![s] = ExitDelivery(ExitEvent(exitCode, 0))]
            /\ steps < MaxSteps
            /\ steps' = steps + 1
  /\ procState' = [procState EXCEPT ![s] = "exited"]
  /\ UNCHANGED <<hostUp, wssState, connVars, wsVars, ioVars, terminals, removals,
                 kills, wsCalls>>
  /\ UNCHANGED <<uncaught, pageVars>>

\* Binding of the listener's parameters (code, signal) to the arguments.
OnExitParams(args) ==
  [code |-> IF Len(args) >= 1 THEN args[1] ELSE Undefined,
   signal |-> IF Len(args) >= 2 THEN args[2] ELSE Undefined]

ExitEnvelope(code, signal) ==
  JSONstringify(<<<<"type", Str("exit")>>, <<"code", code>>, <<"signal", signal>>>>)

\* An onExit listener that closes the transport without sending.
OnExitWsCallsCloseOnly(state, args) ==
  IF state = "OPEN" THEN <<Close>> ELSE <<>>

\* An onExit listener that does not look at ws.readyState.
OnExitWsCallsUnguarded(state, args) ==
  <<Send(ExitEnvelope(OnExitParams(args).code, OnExitParams(args).signal)), Close>>

\* An onExit listener that closes the transport before it sends.
OnExitWsCallsCloseFirst(state, args) ==
  IF state = "OPEN"
    THEN <<Close,
           Send(ExitEnvelope(OnExitParams(args).code, OnExitParams(args).signal))>>
    ELSE <<>>

\* ws calls of the onExit listener
OnExitWsCalls(state, args) ==
  IF state = "OPEN"
    THEN <<Send(ExitEnvelope(OnExitParams(args).code, OnExitParams(args).signal)),
           Close>>
    ELSE <<>>

\* terminals.delete(terminalId) of the onExit listener
OnExitRegistry(T, id) == MapDelete(T, id)

TerminalOnExit(s) ==
  /\ hostUp
  /\ procState[s] = "exited"
  /\ terminals' = OnExitRegistry(terminals, terminalId[s])
  /\ removals' = [removals EXCEPT ![s] =
                    IF terminals' # terminals THEN @ + 1 ELSE @]
  /\ wsCalls' = [wsCalls EXCEPT ![s] = @ \o OnExitWsCalls(readyState[s], exitArgs[s])]
  /\ readyState' = [readyState EXCEPT ![s] =
                      IF Close \in {OnExitWsCalls(readyState[s], exitArgs[s])[i] :
                                      i \in 1..Len(OnExitWsCalls(readyState[s], exitArgs[s]))}
                        THEN "CLOSING" ELSE @]
  /\ procState' = [procState EXCEPT ![s] = "reaped"]
  /\ exitArgs' = [exitArgs EXCEPT ![s] = <<>>]
  /\ UNCHANGED <<hostVars, connVars, wsPending, wsHandled, ioVars, kills>>
  /\ UNCHANGED <<uncaught, pageVars>>

\* ------------------------------------------------------ ws.on('message')
\* A handler whose default branch hands the frame's type to terminal.write.
OnMessageEffectDefaultWrites(m) ==
  LET data == JSONparse(m)
  IN IF data = SyntaxError \/ data = Null THEN [op |-> "caught"]
     ELSE LET type == Prop(data, "type")
          IN IF type = Str("input")
               THEN IF Prop(data, "data")[1] = "str"
                      THEN [op |-> "write", data |-> Prop(data, "data")[2]]
                      ELSE [op |-> "caught"]
             ELSE IF type = Str("resize")
               THEN IF /\ Prop(data, "cols")[1] = "num"
                       /\ Prop(data, "rows")[1] = "num"
                       /\ Prop(data, "cols")[2] > 0
                       /\ Prop(data, "rows")[2] > 0
                      THEN [op |-> "resize", cols |-> Prop(data, "cols")[2],
                            rows |-> Prop(data, "rows")[2]]
                      ELSE [op |-> "caught"]
             ELSE [op |-> "write", data |-> type[2]]

\* A handler that calls terminal.resize(data.rows, data.cols).
OnMessageEffectSwapped(m) ==
  LET data == JSONparse(m)
  IN IF data = SyntaxError \/ data = Null THEN [op |-> "caught"]
     ELSE LET type == Prop(data, "type")
          IN IF type = Str("input")
               THEN IF Prop(data, "data")[1] = "str"
                      THEN [op |-> "write", data |-> Prop(data, "data")[2]]
                      ELSE [op |-> "caught"]
             ELSE IF type = Str("resize")
               THEN IF /\ Prop(data, "cols")[1] = "num"
                       /\ Prop(data, "rows")[1] = "num"
                       /\ Prop(data, "cols")[2] > 0
                       /\ Prop(data, "rows")[2] > 0
                      THEN [op |-> "resize", cols |-> Prop(data, "rows")[2],
                            rows |-> Prop(data, "cols")[2]]
                      ELSE [op |-> "caught"]
             ELSE [op |-> "warn"]

\* What the handler does with one frame: the call it makes on the terminal,
\* "warn" for the default branch, "caught" when the try block throws.
OnMessageEffect(m) ==
  LET data == JSONparse(m)
  IN IF data = SyntaxError \/ data = Null THEN [op |-> "caught"]
     ELSE LET type == Prop(data, "type")
          IN IF type = Str("input")
               THEN IF Prop(data, "data")[1] = "str"
                      THEN [op |-> "write", data |-> Prop(data, "data")[2]]
                      ELSE [op |-> "caught"]
             ELSE IF type = Str("resize")
               THEN IF /\ Prop(data, "cols")[1] = "num"
                       /\ Prop(data, "rows")[1] = "num"
                       /\ Prop(data, "cols")[2] > 0
                       /\ Prop(data, "rows")[2] > 0
                      THEN [op |-> "resize", cols |-> Prop(data, "cols")[2],
                            rows |-> Prop(data, "rows")[2]]
                      ELSE [op |-> "caught"]
             ELSE [op |-> "warn"]

\* A handler that looks its terminal up in the Map by terminalId.
MessageTerminalFromRegistry(s) ==
  IF MapHas(terminals, terminalId[s]) THEN MapGet(terminals, terminalId[s]) ELSE s

\* The terminal the handler of session s acts on: the const of its closure.
MessageTerminal(s) == s

WsOnMessage(s) ==
  /\ hostUp
  /\ conn[s] = "active"
  /\ readyState[s] \in {"OPEN", "CLOSING"}
  /\ wsPending[s] = "none"
  /\ "error" \notin wsHandled[s]
  /\ steps < MaxSteps
  /\ \E m \in Messages :
       LET eff == OnMessageEffect(m)
           t == MessageTerminal(s)
       IN /\ received' = [received EXCEPT ![s] = Append(@, m)]
          /\ written' = IF eff.op = "write"
                          THEN [written EXCEPT ![t] = Append(@, eff.data)]
                          ELSE written
          /\ liveWrites' = IF eff.op = "write" /\ procState[t] = "running"
                             THEN [liveWrites EXCEPT ![t] = @ + 1]
                             ELSE liveWrites
          /\ dims' = IF eff.op = "resize" /\ procState[t] = "running"
                       THEN [dims EXCEPT ![t] = <<eff.cols, eff.rows>>]
                       ELSE dims
  /\ steps' = steps + 1
  /\ UNCHANGED <<hostUp, wssState, connVars, procVars, wsVars, produced, terminals,
                 removals, kills, wsCalls>>
  /\ UNCHANGED <<uncaught, pageVars>>


\* --------------------------------------- ws.on('close') / ws.on('error')
\* Both handlers read and change the Map and call terminal.kill(); reg is
\* [terminals, kills, removals] before the handler, the result is it after.
wsOnClose(reg, s) ==
  LET id == terminalId[s]
  IN IF MapHas(reg.terminals, id)
       THEN [terminals |-> MapDelete(reg.terminals, id),
             kills |-> [reg.kills EXCEPT ![MapGet(reg.terminals, id)] = @ + 1],
             removals |-> [reg.removals EXCEPT ![s] = @ + 1]]
       ELSE reg

\* An error handler that kills the process and leaves the entry in the Map.
wsOnErrorKillOnly(reg, s) ==
  LET id == terminalId[s]
  IN IF MapHas(reg.terminals, id)
       THEN [reg EXCEPT !.kills[MapGet(reg.terminals, id)] = @ + 1]
       ELSE reg

wsOnError(reg, s) ==
  LET id == terminalId[s]
  IN IF MapHas(reg.terminals, id)
       THEN [terminals |-> MapDelete(reg.terminals, id),
             kills |-> [reg.kills EXCEPT ![MapGet(reg.terminals, id)] = @ + 1],
             removals |-> [reg.removals EXCEPT ![s] = @ + 1]]
       ELSE reg

Registry == [terminals |-> terminals, kills |-> kills, removals |-> removals]

\* The transport fails: ws moves to CLOSING and emits 'error'.
TransportError(s) ==
  /\ hostUp
  /\ readyState[s] = "OPEN"
  /\ wsPending[s] = "none"
  /\ steps < MaxSteps
  /\ steps' = steps + 1
  /\ readyState' = [readyState EXCEPT ![s] = "CLOSING"]
  /\ wsPending' = [wsPending EXCEPT ![s] = "error"]
  /\ UNCHANGED <<hostUp, wssState, connVars, procVars, wsHandled, ioVars, terminals,
                 removals, kills, wsCalls>>
  /\ UNCHANGED <<uncaught, pageVars>>

WsOnError(s) ==
  /\ hostUp
  /\ wsPending[s] = "error"
  /\ terminals' = wsOnError(Registry, s).terminals
  /\ kills' = wsOnError(Registry, s).kills
  /\ removals' = wsOnError(Registry, s).removals
  /\ wsPending' = [wsPending EXCEPT ![s] = "none"]
  /\ wsHandled' = [wsHandled EXCEPT ![s] = @ \cup {"error"}]
  /\ UNCHANGED <<hostVars, connVars, procVars, readyState, ioVars, wsCalls>>
  /\ UNCHANGED <<uncaught, pageVars>>

\* The connection ends (the client went away, or the closing handshake or
\* the failure is over): ws moves to CLOSED and emits 'close'.
TransportClose(s) ==
  /\ hostUp
  /\ readyState[s] \in {"OPEN", "CLOSING"}
  /\ wsPending[s] = "none"
  /\ IF readyState[s] = "OPEN"
       THEN steps < MaxSteps /\ steps' = steps + 1
       ELSE steps' = steps
  /\ readyState' = [readyState EXCEPT ![s] = "CLOSED"]
  /\ wsPending' = [wsPending EXCEPT ![s] = "close"]
  /\ UNCHANGED <<hostUp, wssState, connVars, procVars, wsHandled, ioVars, terminals,
                 removals, kills, wsCalls>>
  /\ UNCHANGED <<uncaught, pageVars>>

WsOnClose(s) ==
  /\ hostUp
  /\ wsPending[s] = "close"
  /\ terminals' = wsOnClose(Registry, s).terminals
  /\ kills' = wsOnClose(Registry, s).kills
  /\ removals' = wsOnClose(Registry, s).removals
  /\ wsPending' = [wsPending EXCEPT ![s] = "none"]
  /\ wsHandled' = [wsHandled EXCEPT ![s] = @ \cup {"close"}]
  /\ UNCHANGED <<hostVars, connVars, procVars, readyState, ioVars, wsCalls>>
  /\ UNCHANGED <<uncaught, pageVars>>

\* ------------------------------------------------- process.on('SIGINT')
\* A loop that stops after the first entry of the Map.
KillFirst(T, K) ==
  [t \in Sessions |->
     IF (\E e \in T : e[2] = t) /\ (\A e \in T : e[2] >= t) THEN K[t] + 1 ELSE K[t]]

\* terminals.forEach(terminal => terminal.kill())
KillAll(T, K) == [t \in Sessions |-> IF \E e \in T : e[2] = t THEN K[t] + 1 ELSE K[t]]

Sigint ==
  /\ hostUp
  /\ steps < MaxSteps
  /\ steps' = steps + 1
  /\ kills' = KillAll(terminals, kills)
  /\ wssState' = IF wssState = "RUNNING" THEN "CLOSING" ELSE wssState
  /\ UNCHANGED <<hostUp, connVars, procVars, wsVars, ioVars, terminals, removals,
                 wsCalls>>
  /\ UNCHANGED <<uncaught, pageVars>>

\* The server emits 'close' once no client is left; the callback of
\* wss.close calls process.exit(0).
WssClosed ==
  /\ hostUp
  /\ wssState = "CLOSING"
  /\ \A s \in 1..nconn : readyState[s] = "CLOSED" /\ wsPending[s] = "none"
  /\ wssState' = "CLOSED"
  /\ hostUp' = FALSE
  /\ UNCHANGED <<steps, connVars, procVars, wsVars, ioVars, terminals, removals,
                 kills, wsCalls>>
  /\ UNCHANGED <<uncaught, pageVars>>

\* -------------------------------------- process.on('uncaughtException')
\* A process without the handler: an uncaught exception ends it.
NoUncaughtHandler(up) == FALSE

\* With the handler registered the exception is logged and the process goes
\* on.
OnUncaughtException(up) == up

\* An exception escapes a callback (an 'error' event nobody listens to, an
\* error thrown in a listener) and the handler logs it.
UncaughtException ==
  /\ hostUp
  /\ steps < MaxSteps
  /\ steps' = steps + 1
  /\ uncaught' = uncaught + 1
  /\ hostUp' = OnUncaughtException(hostUp)
  /\ UNCHANGED <<wssState, connVars, procVars, wsVars, ioVars, terminals, removals,
                 kills, wsCalls, pageVars>>

\* --------------------------------------------------------- ChatManager
\* A saveChatHistory that keeps the oldest entries.
ChatTrimKeepsOldest(h) ==
  IF Len(h) > maxHistorySize THEN SubSeq(h, 1, maxHistorySize) ELSE h

\* saveChatHistory: the history it leaves in this.chatHistory
ChatTrim(h) ==
  IF Len(h) > maxHistorySize THEN SliceLast(h, maxHistorySize) ELSE h

\* saveChatHistory when this.chatHistory is h; localStorage.setItem may throw
\* (quota), which the catch swallows.
saveChatHistory(h) ==
  /\ chatUnsaved' = h
  /\ chatHistory' = ChatTrim(h)
  /\ \/ chatStorage' = ChatStringify(ChatTrim(h))
     \/ chatStorage' = chatStorage

\* A call on the chat manager is made.
ChatCall ==
  /\ chatCalls < MaxChatCalls
  /\ chatCalls' = chatCalls + 1

\* new ChatManager() on a page load: loadChatHistory
loadChatHistory ==
  /\ ChatCall
  /\ chatHistory' = IF chatStorage = Null THEN <<>>
                    ELSE ReviveTimestamps(ChatParse(chatStorage))
  /\ chatUnsaved' = chatHistory'
  /\ UNCHANGED <<chatStorage, chatClock>>

addMessage ==
  /\ ChatCall
  /\ chatClock' = chatClock + 1
  /\ saveChatHistory(Append(chatHistory, ChatEntry(<<"chat", chatClock'>>, chatClock')))

\* The ids a caller passes: of the oldest entry, of the newest, and one that
\* no entry has.
KnownIds ==
  {<<"chat", 0>>}
    \cup (IF chatHistory = <<>> THEN {}
          ELSE {chatHistory[1].id, chatHistory[Len(chatHistory)].id})

updateMessage ==
  /\ ChatCall
  /\ \E id \in KnownIds :
       LET index == FindIndex(chatHistory, id)
       IN IF index # 0
            THEN saveChatHistory([chatHistory EXCEPT ![index] =
                                    [@ EXCEPT !.status = "error"]])
            ELSE UNCHANGED <<chatHistory, chatStorage, chatUnsaved>>
  /\ UNCHANGED chatClock

removeMessage ==
  /\ ChatCall
  /\ \E id \in KnownIds :
       LET index == FindIndex(chatHistory, id)
       IN IF index # 0
            THEN saveChatHistory(SpliceOne(chatHistory, index))
            ELSE UNCHANGED <<chatHistory, chatStorage, chatUnsaved>>
  /\ UNCHANGED chatClock

\* clearChatHistory: save the empty history, then remove the item.
clearChatHistory ==
  /\ ChatCall
  /\ chatUnsaved' = <<>>
  /\ chatHistory' = ChatTrim(<<>>)
  /\ chatStorage' = Null
  /\ UNCHANGED chatClock

\* importHistory of a file whose chatHistory is an array of n entries, or of
\* a file without one (the call throws and changes nothing).
importHistory ==
  /\ ChatCall
  /\ \/ \E n \in ImportLengths : saveChatHistory(ReviveTimestamps(ImportFile(n)))
     \/ UNCHANGED <<chatHistory, chatStorage, chatUnsaved>>
  /\ UNCHANGED chatClock

ChatNext ==
  \/ loadChatHistory /\ UNCHANGED <<serverVars, aiVars>>
  \/ addMessage /\ UNCHANGED <<serverVars, aiVars>>
  \/ updateMessage /\ UNCHANGED <<serverVars, aiVars>>
  \/ removeMessage /\ UNCHANGED <<serverVars, aiVars>>
  \/ clearChatHistory /\ UNCHANGED <<serverVars, aiVars>>
  \/ importHistory /\ UNCHANGED <<serverVars, aiVars>>

ChatSpec == Init /\ [][ChatNext]_vars

\* ------------------------------------------------- the AI service, actions
\* GET of a configuration route: the default is written and returned when the
\* file is missing, else the file is read.
RouteGET(file, default) == IF file = Null THEN default ELSE YamlLoad(file)
FileAfterGET(file, default) == IF file = Null THEN YamlDump(default) ELSE file

\* The settings loadSettings builds from the configuration it fetched.
ConfigToSettings(config) ==
  IF config.ai
  THEN [f \in DOMAIN DefaultSettings |->
          LET q == ConfigPath[f] IN
          IF q \notin DOMAIN config.leaves THEN DefaultSettings[f]
          ELSE IF f \in OrDefaulted /\ Falsy(config.leaves[q])
               THEN DefaultSettings[f]
               ELSE config.leaves[q]]
  ELSE DefaultSettings

\* The configuration saveSettings posts: the one it fetched with the ai
\* section created and the leaves of the given settings assigned.
ConfigWithSettings(config, settings) ==
  Config(TRUE,
         Spread(config.leaves,
                [q \in {ConfigPath[f] : f \in DOMAIN settings} |->
                   settings[CHOOSE f \in DOMAIN settings : ConfigPath[f] = q]]),
         config.app)

\* The configuration resetToDefaults posts: config.ai = defaultConfig.ai
ConfigWithDefaults(config) == Config(TRUE, DefaultAiConfig.leaves, config.app)

\* One more call on the service; the caller awaits each before the next.
AiCall ==
  /\ aiOp.pc = "idle"
  /\ aiCalls < MaxAiCalls
  /\ aiCalls' = aiCalls + 1

\* The load the constructor started resolves: this.settings = settings
CtorResolve ==
  /\ ctorLoad = "pending"
  /\ ctorLoad' = "done"
  /\ \/ /\ aiSettings' = ConfigToSettings(RouteGET(aiConfigYaml, DefaultAiConfig))
        /\ aiConfigYaml' = FileAfterGET(aiConfigYaml, DefaultAiConfig)
     \/ /\ aiSettings' = DefaultSettings        \* the fetch failed
        /\ aiConfigYaml' = aiConfigYaml
  /\ UNCHANGED <<aiOp, aiDone, loadResult, pinned, configYaml, aiCalls>>

\* saveSettings(settings), up to its first await
saveSettings(settings) ==
  /\ AiCall
  /\ aiSettings' = Spread(aiSettings, settings)
  /\ pinned' = Some(settings)
  /\ aiOp' = [pc |-> "get", kind |-> "save", arg |-> settings]
  /\ loadResult' = None
  /\ UNCHANGED <<ctorLoad, aiDone, configYaml, aiConfigYaml>>

\* resetToDefaults(), up to its first await
resetToDefaults ==
  /\ AiCall
  /\ aiSettings' = DefaultSettings
  /\ pinned' = None
  /\ aiOp' = [pc |-> "get", kind |-> "reset", arg |-> <<>>]
  /\ loadResult' = None
  /\ UNCHANGED <<ctorLoad, aiDone, configYaml, aiConfigYaml>>

\* The answer to fetch('/api/config') arrives, or the fetch fails and the
\* catch ends the call.
AiGetConfig ==
  /\ aiOp.pc = "get"
  /\ \/ /\ aiOp' = [aiOp EXCEPT !.pc = "post"]
        /\ configYaml' = FileAfterGET(configYaml, DefaultConfig)
        /\ aiDone' = aiDone
     \/ /\ aiOp' = [pc |-> "idle"]
        /\ configYaml' = configYaml
        /\ aiDone' = [kind |-> aiOp.kind, arg |-> aiOp.arg, ok |-> FALSE]
  /\ UNCHANGED <<aiSettings, ctorLoad, loadResult, pinned, aiConfigYaml, aiCalls>>

\* The answer to the POST of /api/config arrives: the route wrote the
\* configuration, or it failed and saveResponse.ok is false.
AiPostConfig ==
  /\ aiOp.pc = "post"
  /\ aiOp' = [pc |-> "idle"]
  /\ \E ok \in BOOLEAN :
       /\ aiDone' = [kind |-> aiOp.kind, arg |-> aiOp.arg, ok |-> ok]
       /\ configYaml' =
            IF ok
            THEN YamlDump(IF aiOp.kind = "save"
                          THEN ConfigWithSettings(YamlLoad(configYaml), aiOp.arg)
                          ELSE ConfigWithDefaults(YamlLoad(configYaml)))
            ELSE configYaml
  /\ UNCHANGED <<aiSettings, ctorLoad, loadResult, pinned, aiConfigYaml, aiCalls>>

\* initialize(), up to the await of loadSettings
initialize ==
  /\ AiCall
  /\ aiOp' = [pc |-> "load"]
  /\ pinned' = None
  /\ loadResult' = None
  /\ UNCHANGED <<aiSettings, ctorLoad, aiDone, configYaml, aiConfigYaml>>

\* loadSettings resolves and initialize assigns what it returned.
InitializeResolve ==
  /\ aiOp.pc = "load"
  /\ aiOp' = [pc |-> "idle"]
  /\ \/ /\ loadResult' =
             [has |-> TRUE, fetched |-> TRUE,
              value |-> ConfigToSettings(RouteGET(aiConfigYaml, DefaultAiConfig))]
        /\ aiConfigYaml' = FileAfterGET(aiConfigYaml, DefaultAiConfig)
     \/ /\ loadResult' = [has |-> TRUE, fetched |-> FALSE,
                          value |-> DefaultSettings]
        /\ aiConfigYaml' = aiConfigYaml
  /\ aiSettings' = loadResult'.value
  /\ UNCHANGED <<ctorLoad, aiDone, pinned, configYaml, aiCalls>>

AiNext ==
  \/ CtorResolve /\ UNCHANGED <<serverVars, chatVars>>
  \/ (\E settings \in SaveInputs : saveSettings(settings))
       /\ UNCHANGED <<serverVars, chatVars>>
  \/ resetToDefaults /\ UNCHANGED <<serverVars, chatVars>>
  \/ AiGetConfig /\ UNCHANGED <<serverVars, chatVars>>
  \/ AiPostConfig /\ UNCHANGED <<serverVars, chatVars>>
  \/ initialize /\ UNCHANGED <<serverVars, chatVars>>
  \/ InitializeResolve /\ UNCHANGED <<serverVars, chatVars>>

AiSpec == Init /\ [][AiNext]_vars

\* ------------------------------------------------------- specification
Next ==
  \/ Connection
  \/ \E s \in Sessions : TerminalOnData(s)
  \/ \E s \in Sessions : ProcessExit(s)
  \/ \E s \in Sessions : TerminalOnExit(s)
  \/ \E s \in Sessions : WsOnMessage(s)
  \/ \E s \in Sessions : TransportError(s)
  \/ \E s \in Sessions : WsOnError(s)
  \/ \E s \in Sessions : TransportClose(s)
  \/ \E s \in Sessions : WsOnClose(s)
  \/ Sigint
  \/ WssClosed
  \/ UncaughtException

Spec == Init /\ [][Next]_vars

\* The event loop runs every callback whose event is pending, and a process
\* that was sent the kill signal ends.
FairSpec ==
  /\ Spec
  /\ \A s \in Sessions :
       /\ WF_vars(TerminalOnExit(s))
       /\ WF_vars(WsOnError(s))
       /\ WF_vars(WsOnClose(s))
       /\ WF_vars(Signalled(s) /\ ProcessExit(s))
       /\ WF_vars(readyState[s] = "CLOSING" /\ TransportClose(s))
  /\ WF_vars(WssClosed)


\* ------------------------------------------------------------ vocabulary
Connected == 1..nconn
Registered(s) == MapHas(terminals, terminalId[s])
ProcessAlive(s) == procState[s] = "running"
TransportAlive(s) == readyState[s] = "OPEN"

\* A termination trigger of session s has happened and the handler that
\* reacts to it has not completed: the exit event or a ws event is pending,
\* or kill() was called and the exit it causes has not been handled.
InTeardown(s) ==
  \/ procState[s] = "exited"
  \/ wsPending[s] # "none"
  \/ (kills[s] > 0 /\ procState[s] = "running")

\* No two connections were given the same id.
NoCollision ==
  \A s, t \in Connected : s # t => terminalId[s] # terminalId[t]

IsSendOf(call, type) ==
  /\ call.op = "send"
  /\ Len(call.data) >= 1
  /\ call.data[1] = <<"type", Str(type)>>

Count(seq, Test(_)) == Cardinality({i \in 1..Len(seq) : Test(seq[i])})
IsExitSend(call) == IsSendOf(call, "exit")
IsConnectedSend(call) == IsSendOf(call, "connected")
IsErrorSend(call) == IsSendOf(call, "error")
IsOutputSend(call) == IsSendOf(call, "output")
IsClose(call) == call.op = "close"

\* ------------------------------------------------------------------ C1
\* C1: in every reachable state, for every session, the registry contains
\* the session's id if and only if both its pty process and its transport
\* are alive, except between a termination trigger and the completion of
\* the handler that reacts to it.
C1_Ownership ==
  hostUp =>
    \A s \in Connected :
      ~InTeardown(s) => (Registered(s) <=> (ProcessAlive(s) /\ TransportAlive(s)))

\* The same statement for runs in which Math.random never repeated an id.
C1_OwnershipWithoutCollision == NoCollision => C1_Ownership


\* ------------------------------------------------------------------ C2
\* The transport of session s has closed while the session was registered.
ClosedWhileRegistered(s) ==
  conn[s] = "active" /\ wsPending[s] = "close" /\ Registered(s)

\* C2: whenever a session's transport closes while the session is
\* registered, its own pty process is eventually terminated and its id is
\* eventually absent from the registry, for any number of sessions and any
\* interleaving of connect, close and exit events.
C2_NoLeakedProcess ==
  \A s \in Sessions :
    /\ ClosedWhileRegistered(s) ~> ~ProcessAlive(s)
    /\ ClosedWhileRegistered(s) ~> ~Registered(s)

\* The same statement for runs in which Math.random never repeated an id.
C2_NoLeakWithoutCollision == []NoCollision => C2_NoLeakedProcess


\* ------------------------------------------------------------------ C3
\* A step in which the onExit listener, or the close or error handler, of
\* session s runs.
ExitHandlerStep(s) == procState[s] = "exited" /\ procState'[s] = "reaped"
WsHandlerStep(s) == wsHandled'[s] # wsHandled[s]

\* A termination handler of session s has already run.
TerminationHandled(s) == procState[s] = "reaped" \/ wsHandled[s] # {}

SecondTriggerChangesNothing ==
  \A s \in Sessions :
    ((ExitHandlerStep(s) \/ WsHandlerStep(s)) /\ TerminationHandled(s))
      => UNCHANGED <<terminals, kills, wsCalls>>

AtMostOneSideEffect ==
  \A s \in Sessions :
    /\ removals[s] <= 1
    /\ Count(wsCalls[s], IsExitSend) <= 1
    /\ Count(wsCalls[s], IsClose) <= 1

\* C3: when termination of one session is triggered twice (process exit and
\* transport close or error, in either order), the session sends at most one
\* exit envelope, closes the transport at most once, removes its id from the
\* registry once, and the second trigger changes nothing.
C3_IdempotentTermination ==
  []AtMostOneSideEffect /\ [][SecondTriggerChangesNothing]_vars

\* The same statement for runs in which Math.random never repeated an id.
C3_IdempotentWithoutCollision ==
  /\ [](NoCollision => AtMostOneSideEffect)
  /\ [][NoCollision' => SecondTriggerChangesNothing]_vars


\* ------------------------------------------------------------------ C4
SpawnFailureHandled(s) ==
  /\ Len(wsCalls[s]) = 2
  /\ IsErrorSend(wsCalls[s][1])
  /\ \E message \in SpawnErrors :
       wsCalls[s][1].data[2] = <<"message", Str(<<ErrorPrefix, message>>)>>
  /\ IsClose(wsCalls[s][2])
  /\ Count(wsCalls[s], IsConnectedSend) = 0
  /\ spawns[s] = 1
  /\ procState[s] = "none"
  /\ \A e \in terminals : e[2] # s

\* C4: when the spawn fails for a new connection the server sends that
\* client an error envelope and closes that transport, inserts nothing into
\* the registry for it, never sends it a connected envelope and does not
\* spawn again.
C4_SpawnFailure ==
  /\ [](\A s \in Connected : conn[s] = "failed" => SpawnFailureHandled(s))
  /\ [][\A s \in Sessions :
          (conn[s] = "none" /\ conn'[s] = "failed") => terminals' = terminals]_vars

\* A connection whose spawn failed, after its transport has closed and its
\* close handler has run.
C4_Witness ==
  \E s \in Connected :
    conn[s] = "failed" /\ readyState[s] = "CLOSED" /\ "close" \in wsHandled[s]

\* ------------------------------------------------------------------ C5
ConnectedCalls(s) == SelectSeq(wsCalls[s], IsConnectedSend)

\* C5: for every connection whose spawn succeeds the client is sent exactly
\* one connected envelope, whose terminalId is the non-empty id under which
\* the session was inserted into the registry and whose pid is the positive
\* pid of the process spawned for that connection.
C5_ConnectedEnvelope ==
  \A s \in Connected :
    conn[s] = "active" =>
      /\ Len(ConnectedCalls(s)) = 1
      /\ ConnectedCalls(s)[1].data[2] = <<"terminalId", Str(terminalId[s])>>
      /\ terminalId[s] # <<>>
      /\ ConnectedCalls(s)[1].data[4] = <<"pid", Num(pid[s])>>
      /\ pid[s] > 0

\* The same statement without the demand that the id is not empty.
C5_ConnectedEnvelopeAnyId ==
  \A s \in Connected :
    conn[s] = "active" =>
      /\ Len(ConnectedCalls(s)) = 1
      /\ ConnectedCalls(s)[1].data[2] = <<"terminalId", Str(terminalId[s])>>
      /\ ConnectedCalls(s)[1].data[4] = <<"pid", Num(pid[s])>>
      /\ pid[s] > 0

\* ------------------------------------------------------------------ C6
\* C6: when the process of an active session exits while its transport is
\* open, the handling of that exit event sends an exit envelope to that
\* client, then closes the transport, and leaves the session's id out of the
\* registry.
C6_ProcessExitHandling ==
  [][\A s \in Sessions :
       (ExitHandlerStep(s) /\ conn[s] = "active" /\ readyState[s] = "OPEN")
         => /\ Len(wsCalls'[s]) = Len(wsCalls[s]) + 2
            /\ SubSeq(wsCalls'[s], 1, Len(wsCalls[s])) = wsCalls[s]
            /\ IsExitSend(wsCalls'[s][Len(wsCalls[s]) + 1])
            /\ IsClose(wsCalls'[s][Len(wsCalls[s]) + 2])
            /\ readyState'[s] = "CLOSING"
            /\ ~MapHas(terminals', terminalId[s])]_vars

\* The exit of a session was handled while its transport was open.
C6_Witness ==
  \E s \in Connected :
    /\ procState[s] = "reaped"
    /\ Len(wsCalls[s]) >= 3
    /\ IsExitSend(wsCalls[s][Len(wsCalls[s]) - 1])
    /\ IsClose(wsCalls[s][Len(wsCalls[s])])
    /\ ~Registered(s)

\* ------------------------------------------------------------------ C7
\* C7: the exit envelope carries the integer exit code in its code field
\* and the terminating signal or null in its signal field, the adapter
\* delivering the exit as one event carrying (exitCode, signal).
C7_ExitEnvelopeFields ==
  \A s \in Connected :
    \A i \in 1..Len(wsCalls[s]) :
      IsExitSend(wsCalls[s][i]) =>
        /\ Len(wsCalls[s][i].data) = 3
        /\ wsCalls[s][i].data[2][1] = "code"
        /\ wsCalls[s][i].data[2][2][1] = "num"
        /\ wsCalls[s][i].data[3][1] = "signal"
        /\ wsCalls[s][i].data[3][2][1] \in {"num", "str", "null"}


\* ------------------------------------------------------------------ C8
\* A step in which the close handler of session s runs.
CloseHandlerStep(s) == wsPending[s] = "close" /\ WsHandlerStep(s)

CloseKillsOwnProcess ==
  \A s \in Sessions :
    (CloseHandlerStep(s) /\ conn[s] = "active" /\ Registered(s))
      => /\ kills'[s] = kills[s] + 1
         /\ ~MapHas(terminals', terminalId[s])

NoExitEnvelopeAfterClose ==
  \A s \in Sessions :
    readyState[s] = "CLOSED"
      => Count(wsCalls'[s], IsExitSend) = Count(wsCalls[s], IsExitSend)

\* C8: when the transport of a registered session closes, the close handler
\* calls kill() on that session's process and removes the session's id from
\* the registry, and no exit envelope is sent on that transport afterwards.
C8_TransportClose ==
  [][CloseKillsOwnProcess /\ NoExitEnvelopeAfterClose]_vars

\* The same statement for runs in which Math.random never repeated an id.
C8_TransportCloseWithoutCollision ==
  [][NoCollision' => (CloseKillsOwnProcess /\ NoExitEnvelopeAfterClose)]_vars

\* ------------------------------------------------------------------ C9
\* C9: from every reachable state, the error handler of a session leaves the
\* registry and the kill() calls exactly as its close handler would, neither
\* sends an envelope, and the close handler run after the error handler
\* leaves what the close handler alone would leave.
C9_ErrorAsClose ==
  \A s \in Connected :
    /\ wsOnError(Registry, s) = wsOnClose(Registry, s)
    /\ wsOnClose(wsOnError(Registry, s), s) = wsOnClose(Registry, s)

\* Both handlers of one registered session have run, error first, with one
\* kill() and one removal between them.
C9_Witness ==
  \E s \in Connected :
    /\ conn[s] = "active"
    /\ wsHandled[s] = {"error", "close"}
    /\ kills[s] = 1
    /\ removals[s] = 1
    /\ ~Registered(s)

\* ------------------------------------------------------------------ C10
\* The data payload of a frame that is an input envelope.
InputPayload(m) ==
  IF \E d \in Payloads : m = MsgInput(d)
    THEN <<CHOOSE d \in Payloads : m = MsgInput(d)>>
    ELSE <<>>

RECURSIVE InputPayloads(_)
InputPayloads(frames) ==
  IF frames = <<>> THEN <<>>
  ELSE InputPayload(Head(frames)) \o InputPayloads(Tail(frames))

\* C10: the payloads written to the process of a session are the data
\* payloads of the input envelopes received on that session's transport, in
\* the order of receipt, none dropped, duplicated or reordered and none from
\* another transport; while the process runs it has received all of them.
C10_InputOrdering ==
  \A s \in Connected :
    conn[s] = "active" =>
      /\ written[s] = InputPayloads(received[s])
      /\ ProcessAlive(s) => liveWrites[s] = Len(written[s])

\* Two live sessions under one id; one received "a" then "b", and its
\* process got both, in that order, while the other got nothing.
C10_Witness ==
  \E s, t \in Connected :
    /\ s # t
    /\ terminalId[s] = terminalId[t]
    /\ ProcessAlive(s) /\ ProcessAlive(t)
    /\ written[s] = <<"a", "b">>
    /\ liveWrites[s] = 2
    /\ written[t] = <<>>

\* ------------------------------------------------------------------ C11
\* The output envelopes sent on the transport of session s, in order.
OutputCalls(s) == SelectSeq(wsCalls[s], IsOutputSend)

\* C11: the output envelopes on a session's transport are, in order, one
\* envelope per chunk its own process produced, each carrying its chunk
\* unchanged, and while the transport is open every chunk produced so far
\* has been forwarded.
C11_OutputForwarding ==
  \A s \in Connected :
    conn[s] = "active" =>
      /\ Len(OutputCalls(s)) <= Len(produced[s])
      /\ \A i \in 1..Len(OutputCalls(s)) :
           OutputCalls(s)[i].data =
             <<<<"type", Str("output")>>, <<"data", Str(produced[s][i])>>>>
      /\ TransportAlive(s) => Len(OutputCalls(s)) = Len(produced[s])

\* A process produced "x" then "y" while its transport was open, and both
\* were forwarded.
C11_Witness ==
  \E s \in Connected :
    /\ TransportAlive(s)
    /\ produced[s] = <<"x", "y">>
    /\ Len(OutputCalls(s)) = 2

\* ------------------------------------------------------------------ C12
\* The frame is not parseable JSON, or its type is none the handler knows.
MalformedOrUnknown(m) ==
  \/ JSONparse(m) = SyntaxError
  \/ Prop(JSONparse(m), "type") \notin {Str("input"), Str("resize")}

\* A step in which the message handler of session s handles a frame.
MessageStep(s) == Len(received'[s]) = Len(received[s]) + 1

\* C12: handling a frame that is malformed or of unrecognized type leaves
\* the registry, the kill() calls, the process, the transport's state, what
\* was written to any process, the dimensions and the calls on any transport
\* as they were.
C12_PermissiveParsing ==
  [][\A s \in Sessions :
       (MessageStep(s) /\ MalformedOrUnknown(received'[s][Len(received'[s])]))
         => UNCHANGED <<terminals, kills, removals, procState, readyState,
                        wsPending, written, liveWrites, dims, wsCalls>>]_vars

\* A session handled a malformed frame and a frame of unknown type and is
\* registered, running and open as before, with nothing written.
C12_Witness ==
  \E s \in Connected :
    /\ received[s] = <<MsgMalformed, MsgUnknown>>
    /\ Registered(s) /\ ProcessAlive(s) /\ TransportAlive(s)
    /\ kills[s] = 0
    /\ written[s] = <<>>
    /\ Len(wsCalls[s]) = 1

\* ------------------------------------------------------------------ C13
\* The frame is a resize envelope for (cols, rows).
IsResize(m, cols, rows) == m = MsgResize(cols, rows)

\* C13: after an Active session (process running, transport open) handles
\* a resize envelope with positive integers (cols, rows), its pseudo-terminal
\* has exactly those dimensions, and the dimensions of every other session's
\* pseudo-terminal are unchanged.
C13_Resize ==
  [][\A s \in Sessions :
       (/\ MessageStep(s)
        /\ ProcessAlive(s) /\ TransportAlive(s)
        /\ IsResize(received'[s][Len(received'[s])], 120, 40))
         => /\ dims'[s] = <<120, 40>>
            /\ \A t \in Sessions \ {s} : dims'[t] = dims[t]]_vars

\* Two live sessions under one id, one resized to 120x40, the other still
\* at the dimensions it was spawned with.
C13_Witness ==
  \E s, t \in Connected :
    /\ s # t
    /\ terminalId[s] = terminalId[t]
    /\ ProcessAlive(s) /\ ProcessAlive(t)
    /\ received[s] = <<MsgResize(120, 40)>>
    /\ dims[s] = <<120, 40>>
    /\ dims[t] = <<InitialCols, InitialRows>>

\* ------------------------------------------------------------------ C14
\* A step in which the SIGINT handler runs.
SigintStep ==
  /\ steps' # steps
  /\ UNCHANGED <<nconn, produced, received, procState, readyState, uncaught>>

\* C14: the SIGINT handler calls kill() on the process of every entry of
\* the registry and only then closes the listener, so that the listener is
\* not closed in that step, is closed only from the closing state, and from
\* the request on every entry of the registry has been signalled.
C14_DrainBeforeClose ==
  /\ [][SigintStep =>
          /\ \A e \in terminals : kills'[e[2]] = kills[e[2]] + 1
          /\ wssState' = IF wssState = "RUNNING" THEN "CLOSING" ELSE wssState]_vars
  /\ [][(wssState # "CLOSED" /\ wssState' = "CLOSED") => wssState = "CLOSING"]_vars
  /\ [](wssState # "RUNNING" => \A e \in terminals : kills[e[2]] > 0)

\* Shutdown was requested with two sessions registered under different ids,
\* both were signalled, and the listener has reported closed.
C14_Witness ==
  /\ wssState = "CLOSED"
  /\ nconn = 2
  /\ terminalId[1] # terminalId[2]
  /\ \A s \in {1, 2} : conn[s] = "active" /\ kills[s] >= 1

\* ------------------------------------------------------------------ C15
\* No connection is accepted and no entry inserted once the drain has begun.
NothingAcceptedAfterDrain ==
  wssState # "RUNNING" =>
    /\ nconn' = nconn
    /\ conn' = conn
    /\ terminals' \subseteq terminals

\* The step that begins the drain stops the listener and tears nothing down.
ListenerStopsFirst ==
  SigintStep =>
    /\ ~Accepting(wssState')
    /\ UNCHANGED <<terminals, wsCalls, readyState, procState>>

\* C15: once the shutdown drain has begun no connection is accepted and no
\* entry is inserted into the registry, and the step that begins the drain
\* leaves the listener not accepting while every existing session is still
\* as it was: no entry removed, no transport closed, no process reaped.
C15_NoAcceptAfterDrain ==
  [][NothingAcceptedAfterDrain /\ ListenerStopsFirst]_vars

\* The drain began with one session registered and room for another
\* connection; that session has since been torn down and no other was
\* accepted.
C15_Witness ==
  /\ wssState = "CLOSING"
  /\ nconn = 1
  /\ nconn < MaxSessions
  /\ steps < MaxSteps
  /\ kills[1] = 1
  /\ procState[1] = "reaped"
  /\ ~Registered(1)

\* ------------------------------------------------------------------ C16
\* C16: after a shutdown request the hosting process eventually exits, and
\* it exits only after the listener has confirmed closure, whatever the
\* number of registered sessions and whether or not a registered session's
\* process had already died.
C16_HostExits ==
  /\ (wssState = "CLOSING") ~> ~hostUp
  /\ [](~hostUp => wssState = "CLOSED")

\* The same statement for runs in which Math.random never repeated an id.
C16_HostExitsWithoutCollision == []NoCollision => C16_HostExits

\* ------------------------------------------------------------------ C17
\* A step in which a connection is accepted.
ConnectionStep == nconn' = nconn + 1

\* Inserting the new session replaces no entry of the registry.
NeverOverwrites == ConnectionStep => terminals \subseteq terminals'

\* C17: the id generated for a new connection differs from the id of every
\* session created earlier, live or terminated, and inserting a new session
\* never overwrites an entry of the registry.
C17_UniqueIds == []NoCollision /\ [][NeverOverwrites]_vars

\* ------------------------------------------------------------------ C18
\* Session t's process is killed, written to, resized or unregistered, and
\* its transport is sent to or closed, only in a callback of session t
\* itself or in the SIGINT handler.
OwnEventsOnly ==
  \A t \in Sessions :
    /\ (kills'[t] # kills[t] /\ ~SigintStep) => WsHandlerStep(t)
    /\ written'[t] # written[t] => MessageStep(t)
    /\ (dims'[t] # dims[t] /\ conn[t] # "none") => MessageStep(t)
    /\ ((\E e \in terminals \ terminals' : e[2] = t) /\ ~SigintStep)
         => (ExitHandlerStep(t) \/ WsHandlerStep(t))
    /\ (wsCalls'[t] # wsCalls[t] /\ conn[t] # "none")
         => (ExitHandlerStep(t) \/ produced'[t] # produced[t])

\* C18: no event on one session's transport ever kills, writes to, resizes
\* or unregisters another session's process, and a transport only receives
\* envelopes originating from its own session's process.
C18_Isolation == [][OwnEventsOnly]_vars

\* The same statement for runs in which Math.random never repeated an id.
C18_IsolationWithoutCollision == [][NoCollision' => OwnEventsOnly]_vars

\* ------------------------------------------------------------------ C19
\* Session s is Active: spawned, registered, its process running and not
\* signalled, its transport open.
Active(s) ==
  /\ conn[s] = "active"
  /\ Registered(s)
  /\ ProcessAlive(s) /\ kills[s] = 0
  /\ TransportAlive(s)

\* The same, in the state after the step.
ActiveAfter(s) ==
  /\ conn'[s] = "active"
  /\ MapHas(terminals', terminalId'[s])
  /\ procState'[s] = "running" /\ kills'[s] = 0
  /\ readyState'[s] = "OPEN"

NoBackwardTransition ==
  \A s \in Connected :
    /\ ~Registered(s) => ~MapHas(terminals', terminalId'[s])
    /\ ~Active(s) => ~ActiveAfter(s)

\* C19: a session that has left the registry is never re-inserted, a
\* session that is no longer Active never becomes Active again, and a session
\* whose spawn failed is never in the registry.
C19_Monotonic ==
  /\ [][NoBackwardTransition]_vars
  /\ [](\A s \in Connected : conn[s] = "failed" => ~Registered(s))

\* The same statement for runs in which Math.random never repeated an id.
C19_MonotonicWithoutCollision ==
  /\ [][NoCollision' => NoBackwardTransition]_vars
  /\ [](NoCollision => \A s \in Connected : conn[s] = "failed" => ~Registered(s))

\* ------------------------------------------------------------------ C20
\* Termination of session s has been requested from either side: its
\* process has exited, kill() was called on it, or the server has called
\* ws.close() on its transport.
TerminationRequested(s) ==
  \/ procState[s] \in {"exited", "reaped"}
  \/ kills[s] > 0
  \/ \E i \in 1..Len(wsCalls[s]) : IsClose(wsCalls[s][i])

\* C20: once termination of a session has been requested, no frame arriving
\* on its transport makes the handler call write or resize on its process.
C20_InboundIgnored ==
  [][\A s \in Sessions :
       (conn[s] = "active" /\ TerminationRequested(s))
         => (written'[s] = written[s] /\ dims'[s] = dims[s])]_vars

\* ------------------------------------------------------------------ C21
\* Session s is Terminated: its process is dead, or was never created, and
\* its transport has closed and the close handler has run.
Terminated(s) ==
  /\ conn[s] # "none"
  /\ procState[s] \in {"none", "reaped"}
  /\ readyState[s] = "CLOSED"
  /\ "close" \in wsHandled[s]

\* The server has called ws.close() on the transport of session s.
ServerClosed(s) == \E i \in 1..Len(wsCalls[s]) : IsClose(wsCalls[s][i])

\* C21 as claimed: every Terminated session has had exactly one of the two
\* terminal envelopes, exit or error, emitted for it.
C21_ExactlyOneTerminalEnvelope ==
  \A s \in Connected :
    Terminated(s) =>
      Count(wsCalls[s], IsExitSend) + Count(wsCalls[s], IsErrorSend) = 1

\* C21 as amended: every session has had at most one of the two terminal
\* envelopes emitted for it, never both; exactly one error envelope and no
\* exit envelope when its spawn failed, and exactly one exit envelope and no
\* error envelope when the server closed the transport on the exit of its
\* process.
C21_AtMostOneTerminalEnvelope ==
  \A s \in Connected :
    /\ Count(wsCalls[s], IsExitSend) + Count(wsCalls[s], IsErrorSend) <= 1
    /\ conn[s] = "failed" => Count(wsCalls[s], IsErrorSend) = 1
    /\ conn[s] = "active" =>
         /\ Count(wsCalls[s], IsErrorSend) = 0
         /\ ServerClosed(s) => Count(wsCalls[s], IsExitSend) = 1

\* One session terminated on the exit of its process, with its one exit
\* envelope, and another terminated on a spawn failure, with its one error
\* envelope.
C21_Witness ==
  \E s, t \in Connected :
    /\ Terminated(s) /\ conn[s] = "active"
    /\ Count(wsCalls[s], IsExitSend) = 1
    /\ Terminated(t) /\ conn[t] = "failed"
    /\ Count(wsCalls[t], IsErrorSend) = 1

\* ------------------------------------------------------------------ C22
\* C22: kill() is called on the process of a session at most once, whatever
\* the order of transport close, transport error, process exit and shutdown
\* requests.
C22_KillAtMostOnce == \A s \in Sessions : kills[s] <= 1

\* ------------------------------------------------------------------ C23
\* The dimensions of the pseudo-terminal of session s change in this step.
DimsChange(s) == dims'[s] # dims[s]

\* C23: the pseudo-terminal of a session starts at (80, 30), and afterwards
\* its dimensions change only in a step in which the message handler of that
\* same session handles a resize envelope.
C23_DimensionsOnlyByResize ==
  [][\A s \in Sessions :
       /\ (conn[s] = "none" /\ conn'[s] = "active") => dims'[s] = <<80, 30>>
       /\ (conn[s] # "none" /\ DimsChange(s))
            => /\ MessageStep(s)
               /\ IsResize(received'[s][Len(received'[s])], dims'[s][1], dims'[s][2])]_vars

\* A session received an input envelope, an unknown and a malformed frame
\* and its process produced output, and its dimensions are still (80, 30).
C23_Witness ==
  \E s \in Connected :
    /\ conn[s] = "active"
    /\ received[s] = <<MsgInput("a"), MsgUnknown>>
    /\ Len(produced[s]) = 1
    /\ dims[s] = <<80, 30>>

\* ------------------------------------------------------------------ C24
\* A step in which the spawn of connection s fails.
SpawnFailureStep(s) == conn[s] = "none" /\ conn'[s] = "failed"

UncaughtStep == uncaught' # uncaught

\* The exception halts nothing: the process is still up, the listener is as
\* it was, and every session's registration, process and transport are as
\* they were.
NothingHalted ==
  UncaughtStep =>
    /\ hostUp'
    /\ wssState' = wssState
    /\ UNCHANGED <<terminals, conn, procState, kills, readyState, wsPending,
                   wsCalls>>

C26_ConnectedFirst ==
  \A s \in Connected :
    conn[s] = "active" =>
      /\ Len(wsCalls[s]) >= 1
      /\ IsConnectedSend(wsCalls[s][1])

\* A transport that was sent connected, then output, then exit.
C26_Witness ==
  \E s \in Connected :
    /\ Len(wsCalls[s]) >= 3
    /\ IsConnectedSend(wsCalls[s][1])
    /\ IsOutputSend(wsCalls[s][2])
    /\ IsExitSend(wsCalls[s][3])

\* ------------------------------------------------------------------ C27
\* An output or exit envelope is sent on the transport of s in this step.
SendsOutputOrExit(s) ==
  /\ Len(wsCalls'[s]) > Len(wsCalls[s])
  /\ \E i \in (Len(wsCalls[s]) + 1)..Len(wsCalls'[s]) :
       IsOutputSend(wsCalls'[s][i]) \/ IsExitSend(wsCalls'[s][i])

\* Nothing but the close follows an exit envelope.
ExitIsLast ==
  \A s \in Connected :
    \A i \in 1..Len(wsCalls[s]) :
      IsExitSend(wsCalls[s][i]) =>
        \A j \in (i + 1)..Len(wsCalls[s]) : IsClose(wsCalls[s][j])

\* C27: output and exit envelopes are sent only in steps that find the
\* transport OPEN, and the exit envelope is the last envelope on a
\* transport.
C27_SendOnlyWhileOpen ==
  /\ [][\A s \in Sessions :
          (conn[s] # "none" /\ SendsOutputOrExit(s)) => readyState[s] = "OPEN"]_vars
  /\ []ExitIsLast

\* The process of a session produced output and exited after the transport
\* had closed, and neither an output nor an exit envelope was sent.
C27_Witness ==
  \E s \in Connected :
    /\ conn[s] = "active"
    /\ readyState[s] = "CLOSED"
    /\ procState[s] = "reaped"
    /\ Len(produced[s]) = 1
    /\ Len(wsCalls[s]) = 1

\* ------------------------------------------------------------------ C28
\* C28: the in-memory history and the history persisted in localStorage
\* hold at most maxHistorySize (100) entries after any sequence of calls, and
\* the in-memory history is the most recent entries, in their order, of the
\* history the last save found.
C28_HistoryBounded ==
  /\ Len(chatHistory) <= 100
  /\ chatStorage # Null => Len(ChatParse(chatStorage)) <= 100
  /\ Len(chatUnsaved) <= 100 => chatHistory = chatUnsaved
  /\ Len(chatUnsaved) > 100 =>
       /\ Len(chatHistory) = 100
       /\ \A i \in 1..100 : chatHistory[i] = chatUnsaved[Len(chatUnsaved) - 100 + i]

\* A message was added to a full history: the save found 101 entries,
\* dropped the oldest and stored the 100 left.
C28_Witness ==
  /\ Len(chatUnsaved) = 101
  /\ Len(chatHistory) = 100
  /\ chatHistory[100].id[1] = "chat"
  /\ chatStorage # Null
  /\ Len(ChatParse(chatStorage)) = 100
  /\ ChatParse(chatStorage)[100].id[1] = "chat"

\* ------------------------------------------------------------------ C29
\* The settings a load returned, field by field, against those saved.
LoadedHas(settings) ==
  \A f \in DOMAIN settings : loadResult.value[f] = settings[f]

\* C29: after saveSettings(s) has completed successfully, a following
\* loadSettings() or initialize() returns settings in which every field of
\* s has the saved value.
C29_SettingsRoundTrip ==
  (aiDone.kind = "save" /\ aiDone.ok /\ loadResult.has /\ loadResult.fetched)
    => LoadedHas(aiDone.arg)

\* ------------------------------------------------------------------ C30
\* C30: once saveSettings(s) has applied s, getSettings() returns the values
\* of s until the next saveSettings, resetToDefaults or initialize call; the
\* load the constructor started does not overwrite them when it resolves.
C30_SaveNotOverwritten ==
  pinned.has => \A f \in DOMAIN pinned.value : aiSettings[f] = pinned.value[f]

====
